---- MODULE Spec2Model ----
(***************************************************************************)
(* QuizMe: the quiz-brain state machine (quiz_brain.py), the quiz screen   *)
(* that drives it from button presses and one-shot timers (ui.py) and the  *)
(* question fetcher with its retry loop (data.py).                         *)
(*                                                                         *)
(* Strings that the code compares or converts are sequences of characters; *)
(* texts that the code HTML-unescapes are sequences of tokens, a token     *)
(* being a literal character or one character reference.  A Python value   *)
(* that may be None is a sequence of length at most one: <<>> is None.     *)
(***************************************************************************)
EXTENDS Integers, Sequences, FiniteSets, TLC

\* ------------------------------------------------------------------ bounds
MaxQuestions == 3      \* longest question list explored
MaxPresses == 4        \* answer-button presses explored on the quiz screen
MaxChecks == 3         \* check_answer calls explored by the direct driver
MaxExtraQueries == 2   \* still_has_questions calls explored after the first False
MaxSetterCalls == 2    \* set_category / set_total_number_of_questions calls explored
MaxCount == 4          \* largest number_of_questions passed to fetch_question_data
Max429 == 2            \* rate-limited attempts explored in one call
MaxAppAttempts == 3    \* requests explored in one call when the whole script is followed

\* ------------------------------------------------------------ option values
None == <<>>
Some(x) == <<x>>
IsNone(o) == o = <<>>
Get(o) == o[1]

\* ----------------------------------------------------------------- strings
s_True == <<"T", "r", "u", "e">>
s_False == <<"F", "a", "l", "s", "e">>
s_true == <<"t", "r", "u", "e">>
s_TRUE == <<"T", "R", "U", "E">>
s_false == <<"f", "a", "l", "s", "e">>

\* str.lower() on one character of the alphabet the answers use
LowerChar(c) ==
    CASE c = "T" -> "t"
      [] c = "R" -> "r"
      [] c = "U" -> "u"
      [] c = "E" -> "e"
      [] c = "F" -> "f"
      [] c = "A" -> "a"
      [] c = "L" -> "l"
      [] c = "S" -> "s"
      [] OTHER -> c

\* str.lower()
Lower(s) == [i \in DOMAIN s |-> LowerChar(s[i])]

\* html.unescape on one token: a character reference becomes its character
UnescapeToken(t) ==
    CASE t = "&amp;" -> "&"
      [] t = "&#039;" -> "'"
      [] t = "&quot;" -> "\""
      [] OTHER -> t

\* html.unescape
html_unescape(s) == [i \in DOMAIN s |-> UnescapeToken(s[i])]

\* ------------------------------------------------------------------ inputs
\* The text of the i-th question fetched: the questions of a quiz differ, and the
\* service escapes some of their characters
QuestionText(i) ==
    IF i % 2 = 1 THEN <<"Q", ToString(i)>> ELSE <<"Q", ToString(i), "&amp;", "C">>
Answers == { s_True, s_False }
\* question_model.Question(q_text, q_answer)
Question(q_text, q_answer) == [text |-> q_text, answer |-> q_answer]
RECURSIVE SeqsUpTo(_, _)
SeqsUpTo(S, n) ==
    IF n = 0 THEN { <<>> }
    ELSE LET shorter == SeqsUpTo(S, n - 1)
         IN shorter \cup { Append(s, x) : s \in { t \in shorter : Len(t) = n - 1 }, x \in S }
\* The question banks explored: every choice of answers for up to MaxQuestions questions
QuestionLists ==
    { [i \in DOMAIN a |-> Question(QuestionText(i), a[i])] : a \in SeqsUpTo(Answers, MaxQuestions) }
RawCategories == { <<"H">>, <<"S", "&amp;", "N">> }
UserAnswers == { s_true, s_TRUE, s_false }
RequestedCounts == { 10, 15 }

\* The reference for "equal ignoring case" on the answers and inputs above
RefMatch(u, a) ==
    \/ u \in { s_true, s_TRUE } /\ a = s_True
    \/ u = s_false /\ a = s_False

VARIABLES
    \* QuizBrain
    question_number, score, question_list, current_question, total_questions, category,
    error,            \* the exception a QuizBrain call raised: "none", "IndexError", "AttributeError"
    \* main.py and QuizInterface
    ui_pc,            \* "off", "set_total", "set_category", "init", "mainloop"
    button_true, button_false,   \* Tk state of the answer buttons
    pending,          \* window.after callbacks scheduled and not yet fired
    canvas_bg, canvas_text, question_number_label, score_label,
    \* the direct driver of QuizBrain
    drv_pc,           \* "off", "idle", "advance" (still_has_questions returned True)
    \* fetch_question_data
    f_pc,             \* "off", "loop", "returned", "raised" (an exception left the call)
    number_of_questions, category_code,
    f_result,         \* the value returned
    requests, responses,   \* the GET requests issued and what came back, in order
    sleeps,           \* time.sleep(2) calls
    initial_count,    \* number_of_questions as passed in
    \* QuizSetup
    setup_pc,         \* "off", "open" (in mainloop), "destroyed"
    selected_option, value_category,   \* the Tk StringVars
    highlighted,      \* the texts of the count buttons shown in the accent colour
    qs_category_code, qs_number_of_questions,   \* quiz_setup.category_code / .number_of_questions
    \* main.py
    main_pc,          \* "off", "setup", "fetching", "built", "crashed"
    main_error,       \* the exception that ended the script, or "none"
    main_category_code, main_number_of_questions, category_name,
    \* what happened so far
    proceeds,         \* runs of get_quiz_settings
    lastOption,       \* the count button pressed last, 0 while none was
    nextCalls, checkCalls, refMatches, hasNextHist, lastReturn, finalShown, presses, setterCalls,
    lastCheck,        \* the last check_answer call: its argument and what it returned
    answeredInTurn    \* so far the k-th answer press answered question k, for every k

brainVars == <<question_number, score, question_list, current_question, total_questions,
               category, error>>
uiVars == <<ui_pc, button_true, button_false, pending, canvas_bg, canvas_text,
            question_number_label, score_label>>
histVars == <<nextCalls, checkCalls, refMatches, hasNextHist, lastReturn, finalShown,
              presses, setterCalls, lastCheck, answeredInTurn>>
fetchVars == <<f_pc, number_of_questions, category_code, f_result, requests, responses,
               sleeps, initial_count>>
setupVars == <<setup_pc, selected_option, value_category, highlighted, qs_category_code,
               qs_number_of_questions, proceeds, lastOption>>
mainVars == <<main_pc, main_error, main_category_code, main_number_of_questions,
              category_name>>
appVars == <<setupVars, mainVars>>
vars == <<brainVars, uiVars, drv_pc, histVars, fetchVars, appVars>>

\* ---------------------------------------------------------------- QuizBrain
\* QuizBrain.__init__
QuizBrainInit(q_list) ==
    /\ question_number = 0
    /\ score = 0
    /\ question_list = q_list
    /\ current_question = None
    /\ total_questions = 0
    /\ category = <<>>
    /\ error = "none"

\* QuizBrain.still_has_questions
still_has_questions_off_by_one == question_number <= Len(question_list)

still_has_questions == question_number < Len(question_list)

\* QuizBrain.next_question: the value it returns, "Q.<index>: <text>"
NextQuestionReturnRaw(qn, q) == [index |-> qn, text |-> q.text]

NextQuestionReturn(qn, q) == [index |-> qn, text |-> html_unescape(q.text)]

\* QuizBrain.next_question; question_list[question_number] raises IndexError past the end
next_question_no_increment ==
    /\ nextCalls' = nextCalls + 1
    /\ IF question_number < Len(question_list)
       THEN /\ current_question' = Some(question_list[question_number + 1])
            /\ question_number' = question_number
            /\ lastReturn' = Some(NextQuestionReturn(question_number,
                                                     question_list[question_number + 1]))
            /\ error' = error
       ELSE /\ error' = "IndexError"
            /\ UNCHANGED <<current_question, question_number, lastReturn>>
    /\ UNCHANGED <<score, question_list, total_questions, category>>

next_question ==
    /\ nextCalls' = nextCalls + 1
    /\ IF question_number < Len(question_list)
       THEN /\ current_question' = Some(question_list[question_number + 1])
            /\ question_number' = question_number + 1
            /\ lastReturn' = Some(NextQuestionReturn(question_number + 1,
                                                     question_list[question_number + 1]))
            /\ error' = error
       ELSE /\ error' = "IndexError"
            /\ UNCHANGED <<current_question, question_number, lastReturn>>
    /\ UNCHANGED <<score, question_list, total_questions, category>>

\* QuizBrain.check_answer: the comparison
AnswerMatchesCaseSensitive(user_answer, correct_answer) == user_answer = correct_answer

AnswerMatches(user_answer, correct_answer) == Lower(user_answer) = Lower(correct_answer)

\* QuizBrain.check_answer: what it returns; None.answer raises AttributeError
CheckAnswerResult(user_answer) ==
    /\ ~IsNone(current_question)
    /\ AnswerMatches(user_answer, Get(current_question).answer)

\* QuizBrain.check_answer: its effect
check_answer_always_scores(user_answer) ==
    /\ checkCalls' = checkCalls + 1
    /\ IF IsNone(current_question)
       THEN /\ error' = "AttributeError"
            /\ UNCHANGED <<score, refMatches, lastCheck>>
       ELSE /\ score' = score + 1
            /\ refMatches' = IF RefMatch(user_answer, Get(current_question).answer)
                             THEN refMatches + 1 ELSE refMatches
            /\ lastCheck' = Some([user_answer |-> user_answer,
                                  returned |-> CheckAnswerResult(user_answer)])
            /\ error' = error
    /\ UNCHANGED <<question_number, question_list, current_question, total_questions,
                   category>>

check_answer(user_answer) ==
    /\ checkCalls' = checkCalls + 1
    /\ IF IsNone(current_question)
       THEN /\ error' = "AttributeError"
            /\ UNCHANGED <<score, refMatches, lastCheck>>
       ELSE /\ score' = IF CheckAnswerResult(user_answer) THEN score + 1 ELSE score
            /\ refMatches' = IF RefMatch(user_answer, Get(current_question).answer)
                             THEN refMatches + 1 ELSE refMatches
            /\ lastCheck' = Some([user_answer |-> user_answer,
                                  returned |-> CheckAnswerResult(user_answer)])
            /\ error' = error
    /\ UNCHANGED <<question_number, question_list, current_question, total_questions,
                   category>>

\* QuizBrain.set_category
set_category(c) ==
    /\ category' = html_unescape(c)
    /\ UNCHANGED <<question_number, score, question_list, current_question,
                   total_questions, error>>

\* QuizBrain.set_total_number_of_questions
set_total_number_of_questions(n) ==
    /\ total_questions' = n
    /\ UNCHANGED <<question_number, score, question_list, current_question, category, error>>

\* QuizBrain.next_question raises instead of returning
NextQuestionRaises == ~(question_number < Len(question_list))

\* ------------------------------------------------------------ QuizInterface
\* get_next_question, the branch taken when no question is left
ShowFinalScoreOverTotal ==
    /\ canvas_text' = [kind |-> "final", score |-> score, of |-> total_questions]
    /\ button_true' = "disabled"
    /\ button_false' = "disabled"
    /\ finalShown' = finalShown + 1
    /\ UNCHANGED <<brainVars, question_number_label, nextCalls, lastReturn>>

ShowFinalScoreOneButton ==
    /\ canvas_text' = [kind |-> "final", score |-> score, of |-> question_number]
    /\ button_true' = "disabled"
    /\ button_false' = button_false
    /\ finalShown' = finalShown + 1
    /\ UNCHANGED <<brainVars, question_number_label, nextCalls, lastReturn>>

ShowFinalScore ==
    /\ canvas_text' = [kind |-> "final", score |-> score, of |-> question_number]
    /\ button_true' = "disabled"
    /\ button_false' = "disabled"
    /\ finalShown' = finalShown + 1
    /\ UNCHANGED <<brainVars, question_number_label, nextCalls, lastReturn>>

\* get_next_question, the branch taken when a question is left
ShowNextQuestion ==
    /\ question_number_label' = [k |-> question_number + 1, total |-> total_questions]
    /\ next_question
    /\ canvas_text' = IF NextQuestionRaises THEN canvas_text
                      ELSE [kind |-> "question", index |-> Get(lastReturn').index,
                            text |-> Get(lastReturn').text]
    /\ UNCHANGED <<button_true, button_false, finalShown>>

\* QuizInterface.get_next_question
get_next_question ==
    /\ canvas_bg' = "SECONDARY_COLOR"
    /\ score_label' = score
    /\ IF still_has_questions THEN ShowNextQuestion ELSE ShowFinalScore

\* QuizInterface.give_feedback
give_feedback_no_timer(is_right) ==
    /\ canvas_bg' = IF is_right THEN "CORRECT_ANSWER_COLOR" ELSE "INCORRECT_ANSWER_COLOR"
    /\ pending' = pending

give_feedback(is_right) ==
    /\ canvas_bg' = IF is_right THEN "CORRECT_ANSWER_COLOR" ELSE "INCORRECT_ANSWER_COLOR"
    /\ pending' = pending + 1

\* true_pressed / false_pressed: check_answer, then give_feedback unless it raised
AnswerPressed(user_answer) ==
    /\ presses < MaxPresses
    /\ presses' = presses + 1
    /\ check_answer(user_answer)
    /\ IF IsNone(current_question)
       THEN UNCHANGED <<canvas_bg, pending>>
       ELSE give_feedback(CheckAnswerResult(user_answer))
    /\ answeredInTurn' = (answeredInTurn /\ question_number = presses + 1)
    /\ UNCHANGED <<ui_pc, button_true, button_false, canvas_text, question_number_label,
                   score_label, drv_pc, nextCalls, hasNextHist, lastReturn, finalShown,
                   setterCalls, fetchVars, appVars>>

\* QuizInterface.true_pressed, the command of button_true (Tk runs it only while the
\* button is not disabled)
TruePressed ==
    /\ ui_pc = "mainloop"
    /\ button_true = "normal"
    /\ AnswerPressed(s_true)

\* QuizInterface.false_pressed, the command of button_false
FalsePressed ==
    /\ ui_pc = "mainloop"
    /\ button_false = "normal"
    /\ AnswerPressed(s_false)

\* The callback scheduled by window.after(1000, self.get_next_question) fires
TimerFires ==
    /\ ui_pc = "mainloop"
    /\ pending > 0
    /\ pending' = pending - 1
    /\ get_next_question
    /\ UNCHANGED <<ui_pc, drv_pc, checkCalls, refMatches, lastCheck, answeredInTurn, hasNextHist, presses, setterCalls,
                   fetchVars, appVars>>

\* main.py: quiz.set_total_number_of_questions(number_of_questions)
MainSetTotal ==
    /\ ui_pc = "set_total"
    /\ \E n \in RequestedCounts : set_total_number_of_questions(n)
    /\ ui_pc' = "set_category"
    /\ UNCHANGED <<button_true, button_false, pending, canvas_bg, canvas_text,
                   question_number_label, score_label, drv_pc, histVars, fetchVars, appVars>>

\* main.py: quiz.set_category(category_name)
MainSetCategory ==
    /\ ui_pc = "set_category"
    /\ \E c \in RawCategories : set_category(c)
    /\ ui_pc' = "init"
    /\ UNCHANGED <<button_true, button_false, pending, canvas_bg, canvas_text,
                   question_number_label, score_label, drv_pc, histVars, fetchVars, appVars>>

\* QuizInterface.__init__: the widgets are built, then the first question is loaded
QuizInterfaceInit ==
    /\ ui_pc = "init"
    /\ ui_pc' = "mainloop"
    /\ get_next_question
    /\ UNCHANGED <<pending, drv_pc, checkCalls, refMatches, lastCheck, answeredInTurn, hasNextHist, presses, setterCalls,
                   fetchVars, appVars>>

\* Nothing has been called yet
HistInit ==
    /\ nextCalls = 0
    /\ checkCalls = 0
    /\ refMatches = 0
    /\ hasNextHist = <<>>
    /\ lastReturn = None
    /\ finalShown = 0
    /\ presses = 0
    /\ setterCalls = 0
    /\ lastCheck = None
    /\ answeredInTurn = TRUE

\* The widgets as QuizInterface.__init__ creates them
WidgetsInit ==
    /\ button_true = "normal"
    /\ button_false = "normal"
    /\ pending = 0
    /\ canvas_bg = "SECONDARY_COLOR"
    /\ canvas_text = [kind |-> "empty"]
    /\ question_number_label = [k |-> 0, total |-> 0]
    /\ score_label = 0

\* fetch_question_data is not running
FetchOff ==
    /\ f_pc = "off"
    /\ number_of_questions = 0
    /\ category_code = 0
    /\ f_result = None
    /\ requests = <<>>
    /\ responses = <<>>
    /\ sleeps = 0
    /\ initial_count = 0

\* No setup window, and main.py is not being followed
AppOff ==
    /\ setup_pc = "off"
    /\ selected_option = "10"
    /\ value_category = "General Knowledge"
    /\ highlighted = { "10" }
    /\ qs_category_code = 0
    /\ qs_number_of_questions = 0
    /\ proceeds = 0
    /\ lastOption = 0
    /\ main_pc = "off"
    /\ main_error = "none"
    /\ main_category_code = 0
    /\ main_number_of_questions = 0
    /\ category_name = <<>>

\* main.py after quiz = QuizBrain(question_bank)
InitUI ==
    /\ \E q_list \in QuestionLists : QuizBrainInit(q_list)
    /\ ui_pc = "set_total"
    /\ WidgetsInit
    /\ drv_pc = "off"
    /\ HistInit
    /\ AppOff
    /\ FetchOff

NextUI ==
    \/ MainSetTotal
    \/ MainSetCategory
    \/ QuizInterfaceInit
    \/ TruePressed
    \/ FalsePressed
    \/ TimerFires

SpecUI == InitUI /\ [][NextUI]_vars

\* The script runs on to mainloop, and Tk's event loop runs every timer that is due
SpecUIFair ==
    /\ InitUI
    /\ [][NextUI]_vars
    /\ WF_vars(MainSetTotal \/ MainSetCategory \/ QuizInterfaceInit)
    /\ WF_vars(TimerFires)

\* ------------------------------------------- QuizBrain driven without a screen
\* The caller asks still_has_questions; it asks again only after it has advanced
DrvStillHasQuestions ==
    /\ drv_pc = "idle"
    /\ Len(hasNextHist) < Len(question_list) + MaxExtraQueries
    /\ hasNextHist' = Append(hasNextHist, still_has_questions)
    /\ drv_pc' = IF still_has_questions THEN "advance" ELSE "idle"
    /\ UNCHANGED <<brainVars, uiVars, nextCalls, checkCalls, refMatches, lastCheck, answeredInTurn, lastReturn,
                   finalShown, presses, setterCalls, fetchVars, appVars>>

\* The caller advances once for each True it was given
DrvNextQuestion ==
    /\ drv_pc = "advance"
    /\ next_question
    /\ drv_pc' = "idle"
    /\ UNCHANGED <<uiVars, checkCalls, refMatches, lastCheck, answeredInTurn, hasNextHist, finalShown, presses,
                   setterCalls, fetchVars, appVars>>

\* The caller checks an answer, any number of times for a question
DrvCheckAnswer ==
    /\ drv_pc \in { "idle", "advance" }
    /\ ~IsNone(current_question)
    /\ checkCalls < MaxChecks
    /\ \E u \in UserAnswers : check_answer(u)
    /\ UNCHANGED <<uiVars, drv_pc, answeredInTurn, nextCalls, hasNextHist, lastReturn, finalShown, presses,
                   setterCalls, fetchVars, appVars>>

\* The caller sets the category at any moment
DrvSetCategory ==
    /\ drv_pc \in { "idle", "advance" }
    /\ setterCalls < MaxSetterCalls
    /\ setterCalls' = setterCalls + 1
    /\ \E c \in RawCategories : set_category(c)
    /\ UNCHANGED <<uiVars, drv_pc, nextCalls, checkCalls, refMatches, lastCheck, answeredInTurn, hasNextHist,
                   lastReturn, finalShown, presses, fetchVars, appVars>>

\* The caller sets the total at any moment
DrvSetTotal ==
    /\ drv_pc \in { "idle", "advance" }
    /\ setterCalls < MaxSetterCalls
    /\ setterCalls' = setterCalls + 1
    /\ \E n \in RequestedCounts : set_total_number_of_questions(n)
    /\ UNCHANGED <<uiVars, drv_pc, nextCalls, checkCalls, refMatches, lastCheck, answeredInTurn, hasNextHist,
                   lastReturn, finalShown, presses, fetchVars, appVars>>

\* A fresh QuizBrain and no screen
InitBrain ==
    /\ \E q_list \in QuestionLists : QuizBrainInit(q_list)
    /\ ui_pc = "off"
    /\ WidgetsInit
    /\ drv_pc = "idle"
    /\ HistInit
    /\ AppOff
    /\ FetchOff

NextBrain ==
    \/ DrvStillHasQuestions
    \/ DrvNextQuestion
    \/ DrvCheckAnswer
    \/ DrvSetCategory
    \/ DrvSetTotal

SpecBrain == InitBrain /\ [][NextBrain]_vars

\* ------------------------------------------------------- fetch_question_data
\* The category codes of the setup menu
CategoryCodes == { 9, 11, 12, 15, 17, 18, 22, 23 }

\* One record of the "results" of the service
RawRecord(i, answer) ==
    [category |-> <<"S", "&amp;", "N">>, question |-> QuestionText(i), correct_answer |-> answer]

\* What one attempt can meet: a response with a JSON body (HTTP 200), an HTTP error
\* status (429 or another), or no HTTP response at all (connection failure, timeout)
Outcome(kind, status, response_code, results) ==
    [kind |-> kind, status |-> status, response_code |-> response_code, results |-> results]
Outcomes(amount, may429) ==
    { Outcome("response", 200, 0, [i \in 1..amount |-> RawRecord(i, a)]) : a \in Answers }
    \cup { Outcome("response", 200, rc, <<>>) : rc \in { 1, 2 } }
    \cup { Outcome("response", st, -1, <<>>) : st \in (IF may429 THEN { 429 } ELSE {}) \cup { 500 } }
    \cup { Outcome("no_response", 0, -1, <<>>) }

\* response.raise_for_status() raises HTTPError
RaisesHTTPErrorServerOnly(o) == o.kind = "response" /\ o.status >= 500

RaisesHTTPError(o) == o.kind = "response" /\ o.status >= 400

\* number_of_questions -= 1
DegradedCountSame(n) == n

DegradedCountUp(n) == n + 1

DegradedCountByTwo(n) == n - 2

DegradedCount(n) == n - 1

\* One pass of the while loop: the request, and the branch its outcome takes
FetchAttempt ==
    /\ f_pc = "loop"
    /\ number_of_questions > 0
    /\ \E o \in Outcomes(number_of_questions, sleeps < Max429) :
        /\ requests' = Append(requests, [amount |-> number_of_questions,
                                         category |-> category_code, type |-> "boolean"])
        /\ responses' = Append(responses, o)
        /\ IF o.kind = "no_response"
           THEN \* requests.get raises an exception that is no HTTPError: nothing catches it
                /\ f_pc' = "raised"
                /\ UNCHANGED <<number_of_questions, f_result, sleeps>>
           ELSE IF RaisesHTTPError(o)
           THEN IF o.status = 429
                THEN /\ sleeps' = sleeps + 1
                     /\ UNCHANGED <<f_pc, number_of_questions, f_result>>
                ELSE \* break, then return None
                     /\ f_pc' = "returned"
                     /\ f_result' = None
                     /\ UNCHANGED <<number_of_questions, sleeps>>
           ELSE IF o.response_code = 0
           THEN /\ f_pc' = "returned"
                /\ f_result' = Some(o.results)
                /\ UNCHANGED <<number_of_questions, sleeps>>
           ELSE /\ number_of_questions' = DegradedCount(number_of_questions)
                /\ UNCHANGED <<f_pc, f_result, sleeps>>
    /\ UNCHANGED <<category_code, initial_count, brainVars, uiVars, drv_pc, histVars,
                   appVars>>

\* The while condition fails: return None
FetchGiveUp ==
    /\ f_pc = "loop"
    /\ ~(number_of_questions > 0)
    /\ f_pc' = "returned"
    /\ f_result' = None
    /\ UNCHANGED <<number_of_questions, category_code, requests, responses, sleeps,
                   initial_count, brainVars, uiVars, drv_pc, histVars,
                   appVars>>

\* fetch_question_data(number_of_questions, category_code) has been entered
InitFetch ==
    /\ f_pc = "loop"
    /\ number_of_questions \in -1..MaxCount
    /\ initial_count = number_of_questions
    /\ category_code \in CategoryCodes
    /\ f_result = None
    /\ requests = <<>>
    /\ responses = <<>>
    /\ sleeps = 0
    /\ QuizBrainInit(<<>>)
    /\ ui_pc = "off"
    /\ WidgetsInit
    /\ drv_pc = "off"
    /\ HistInit
    /\ AppOff

NextFetch ==
    \/ FetchAttempt
    \/ FetchGiveUp

SpecFetch == InitFetch /\ [][NextFetch]_vars

\* The call runs on: an attempt that can be made is made, the loop exit is taken
SpecFetchFair == InitFetch /\ [][NextFetch]_vars /\ WF_vars(NextFetch)

\* ------------------------------------------------------------------ QuizSetup
\* options_number_of_questions
options_number_of_questions == <<10, 15, 20, 25, 30>>

\* self.options_category
options_category ==
    << [category |-> "General Knowledge", code |-> 9],
       [category |-> "Entertainment: Film", code |-> 11],
       [category |-> "Entertainment: Music", code |-> 12],
       [category |-> "Entertainment: Video Games", code |-> 15],
       [category |-> "Science & Nature", code |-> 17],
       [category |-> "Science: Computers", code |-> 18],
       [category |-> "Geography", code |-> 22],
       [category |-> "History", code |-> 23] >>

Range(f) == { f[i] : i \in DOMAIN f }
AllCounts == Range(options_number_of_questions)
AllCategoryNames == { options_category[i].category : i \in DOMAIN options_category }
\* The menu entries picked in the runs that go on to fetch and play
SomeCategoryNames == { "General Knowledge", "Science & Nature" }

\* StringVar.set(value) keeps the text of the number; str(value) is the button's text
StrOf(n) == ToString(n)

\* int(self.selected_option.get())
IntOf(str) ==
    CASE str = "10" -> 10
      [] str = "15" -> 15
      [] str = "20" -> 20
      [] str = "25" -> 25
      [] str = "30" -> 30

\* get_quiz_settings: the code of the first menu entry with that name, None (-1 here)
\* when there is none
CodeOf(name) ==
    LET found == { i \in DOMAIN options_category : options_category[i].category = name }
    IN IF found = {} THEN -1
       ELSE options_category[CHOOSE i \in found : \A j \in found : i <= j].code

\* QuizSetup.__init__ up to mainloop
QuizSetupInit ==
    /\ setup_pc = "open"
    /\ selected_option = "10"
    /\ value_category = options_category[1].category
    /\ highlighted = { "10" }
    /\ qs_category_code = 0
    /\ qs_number_of_questions = 0
    /\ proceeds = 0
    /\ lastOption = 0

\* QuizSetup.select_option, the command of a count button
select_option_colours_only(value) ==
    /\ selected_option' = selected_option
    /\ highlighted' = { StrOf(value) }

select_option(value) ==
    /\ selected_option' = StrOf(value)
    /\ highlighted' = { StrOf(value) }

\* The user presses one of the count buttons
SetupSelectOption(values) ==
    /\ setup_pc = "open"
    /\ \E value \in values :
        /\ select_option(value)
        /\ lastOption' = value
    /\ UNCHANGED <<setup_pc, value_category, qs_category_code, qs_number_of_questions,
                   proceeds, mainVars, brainVars, uiVars, drv_pc, histVars, fetchVars>>

\* The user picks an entry of the category OptionMenu
SetupSelectCategory(names) ==
    /\ setup_pc = "open"
    /\ \E name \in names : value_category' = name
    /\ UNCHANGED <<setup_pc, selected_option, highlighted, qs_category_code,
                   qs_number_of_questions, proceeds, lastOption, mainVars, brainVars,
                   uiVars, drv_pc, histVars, fetchVars>>

\* QuizSetup.get_quiz_settings, the command of PROCEED, with exit_settings
get_quiz_settings ==
    /\ setup_pc = "open"
    /\ qs_category_code' = CodeOf(value_category)
    /\ qs_number_of_questions' = IntOf(selected_option)
    /\ setup_pc' = "destroyed"
    /\ proceeds' = proceeds + 1
    /\ UNCHANGED <<selected_option, value_category, highlighted, lastOption, mainVars,
                   brainVars, uiVars, drv_pc, histVars, fetchVars>>

\* The user closes the window instead: Tk destroys it and mainloop returns
SetupClose ==
    /\ setup_pc = "open"
    /\ setup_pc' = "destroyed"
    /\ UNCHANGED <<selected_option, value_category, highlighted, qs_category_code,
                   qs_number_of_questions, proceeds, lastOption, mainVars, brainVars,
                   uiVars, drv_pc, histVars, fetchVars>>

\* The setup window alone
InitSetup ==
    /\ QuizSetupInit
    /\ main_pc = "off"
    /\ main_error = "none"
    /\ main_category_code = 0
    /\ main_number_of_questions = 0
    /\ category_name = <<>>
    /\ QuizBrainInit(<<>>)
    /\ ui_pc = "off"
    /\ WidgetsInit
    /\ drv_pc = "off"
    /\ HistInit
    /\ FetchOff

NextSetup ==
    \/ SetupSelectOption(AllCounts)
    \/ SetupSelectCategory(AllCategoryNames)
    \/ get_quiz_settings
    \/ SetupClose

SpecSetup == InitSetup /\ [][NextSetup]_vars

\* -------------------------------------------------------------------- main.py
\* quiz_setup = QuizSetup() has returned: the settings are read and
\* fetch_question_data(number_of_questions, category_code) is entered
MainCallFetch ==
    /\ main_pc = "setup"
    /\ setup_pc = "destroyed"
    /\ main_category_code' = qs_category_code
    /\ main_number_of_questions' = qs_number_of_questions
    /\ main_pc' = "fetching"
    /\ f_pc' = "loop"
    /\ number_of_questions' = qs_number_of_questions
    /\ initial_count' = qs_number_of_questions
    /\ category_code' = qs_category_code
    /\ UNCHANGED <<f_result, requests, responses, sleeps, main_error, category_name,
                   setupVars, brainVars, uiVars, drv_pc, histVars>>

\* One pass of the fetch loop, within the number of requests explored
AppFetchAttempt ==
    /\ Len(requests) < MaxAppAttempts
    /\ FetchAttempt

\* An exception left fetch_question_data: it ends the script
MainFetchRaised ==
    /\ main_pc = "fetching"
    /\ f_pc = "raised"
    /\ main_pc' = "crashed"
    /\ main_error' = "ConnectionError"
    /\ UNCHANGED <<main_category_code, main_number_of_questions, category_name, setupVars,
                   brainVars, uiVars, drv_pc, histVars, fetchVars>>

\* question_data[0]["category"], the question bank and QuizBrain(question_bank);
\* None[0] raises TypeError and [][0] raises IndexError
MainBuildQuiz ==
    /\ main_pc = "fetching"
    /\ f_pc = "returned"
    /\ IF IsNone(f_result)
       THEN /\ main_pc' = "crashed"
            /\ main_error' = "TypeError"
            /\ UNCHANGED <<category_name, brainVars, ui_pc>>
       ELSE IF Get(f_result) = <<>>
       THEN /\ main_pc' = "crashed"
            /\ main_error' = "IndexError"
            /\ UNCHANGED <<category_name, brainVars, ui_pc>>
       ELSE /\ category_name' = Get(f_result)[1].category
            /\ question_list' = [i \in DOMAIN Get(f_result) |->
                                    Question(Get(f_result)[i].question,
                                             Get(f_result)[i].correct_answer)]
            /\ question_number' = 0
            /\ score' = 0
            /\ current_question' = None
            /\ total_questions' = 0
            /\ category' = <<>>
            /\ error' = "none"
            /\ main_pc' = "built"
            /\ ui_pc' = "set_total"
            /\ main_error' = main_error
    /\ UNCHANGED <<main_category_code, main_number_of_questions, setupVars, button_true,
                   button_false, pending, canvas_bg, canvas_text, question_number_label,
                   score_label, drv_pc, histVars, fetchVars>>

\* quiz.set_total_number_of_questions(number_of_questions), the count asked of the setup
MainSetTotalRequested ==
    /\ main_pc = "built"
    /\ ui_pc = "set_total"
    /\ set_total_number_of_questions(main_number_of_questions)
    /\ ui_pc' = "set_category"
    /\ UNCHANGED <<button_true, button_false, pending, canvas_bg, canvas_text,
                   question_number_label, score_label, drv_pc, histVars, fetchVars, appVars>>

\* quiz.set_category(category_name), the category of the first record
MainSetCategoryName ==
    /\ main_pc = "built"
    /\ ui_pc = "set_category"
    /\ set_category(category_name)
    /\ ui_pc' = "init"
    /\ UNCHANGED <<button_true, button_false, pending, canvas_bg, canvas_text,
                   question_number_label, score_label, drv_pc, histVars, fetchVars, appVars>>

\* main.py at quiz_setup = QuizSetup(), the setup window open
InitApp ==
    /\ QuizSetupInit
    /\ main_pc = "setup"
    /\ main_error = "none"
    /\ main_category_code = 0
    /\ main_number_of_questions = 0
    /\ category_name = <<>>
    /\ QuizBrainInit(<<>>)
    /\ ui_pc = "off"
    /\ WidgetsInit
    /\ drv_pc = "off"
    /\ HistInit
    /\ FetchOff

NextApp ==
    \/ SetupSelectOption(RequestedCounts)
    \/ SetupSelectCategory(SomeCategoryNames)
    \/ get_quiz_settings
    \/ SetupClose
    \/ MainCallFetch
    \/ AppFetchAttempt
    \/ FetchGiveUp
    \/ MainFetchRaised
    \/ MainBuildQuiz
    \/ MainSetTotalRequested
    \/ MainSetCategoryName
    \/ QuizInterfaceInit
    \/ TruePressed
    \/ FalsePressed
    \/ TimerFires

SpecApp == InitApp /\ [][NextApp]_vars

\* ------------------------------------------------------------ the quiz screen
\* C1: on the quiz screen the score never exceeds the number of questions shown
\* (score <= question_number).
ScoreAtMostPosition == score <= question_number

\* C2: on the quiz screen the position stays within 0..len(question_list) and
\* next_question is never run past the end of the list (no IndexError).
PositionInRange ==
    /\ 0 <= question_number
    /\ question_number <= Len(question_list)
    /\ error # "IndexError"

\* C2: the last question was answered twice, one timer showed the final score and
\* another is still pending
PositionInRangeWitness ==
    /\ Len(question_list) >= 1
    /\ question_number = Len(question_list)
    /\ finalShown >= 1
    /\ pending >= 1

\* C6: on the quiz screen next_question and check_answer strictly alternate, starting
\* with next_question: after every prefix of the run the calls of check_answer are
\* as many as those of next_question, or one fewer.
StrictAlternation ==
    /\ checkCalls <= nextCalls
    /\ nextCalls <= checkCalls + 1

\* C10: once the final score is on the canvas both buttons are disabled, and every
\* later step keeps it there, keeps them disabled, calls neither check_answer nor
\* next_question and leaves score and question_number alone.
FinalScoreIsTerminal ==
    [][canvas_text.kind = "final" =>
          /\ button_true = "disabled"
          /\ button_false = "disabled"
          /\ canvas_text'.kind = "final"
          /\ button_true' = "disabled"
          /\ button_false' = "disabled"
          /\ checkCalls' = checkCalls
          /\ nextCalls' = nextCalls
          /\ score' = score
          /\ question_number' = question_number]_vars

\* C10: a timer that was pending when the final score appeared has fired since
FinalScoreIsTerminalWitness ==
    /\ Len(question_list) >= 1
    /\ canvas_text.kind = "final"
    /\ finalShown >= 2

\* ----------------------------------------------- QuizBrain without a screen
\* C3: the i-th call of still_has_questions returns True exactly when i is at most
\* len(question_list): True for the first n calls, False from then on, False from
\* the start for an empty list.
HasNextExactlyLenTimes ==
    \A i \in DOMAIN hasNextHist : hasNextHist[i] <=> (i <= Len(question_list))

\* C3: a list of two or more questions was run through and asked twice more
HasNextExactlyLenTimesWitness ==
    /\ Len(question_list) >= 2
    /\ Len(hasNextHist) = Len(question_list) + 2

\* C4: after the N-th call of next_question the current question is the N-th of the
\* list, the call returned index N with that question's unescaped text, and
\* question_number is N, whatever other calls came in between.
NthCallGivesNthQuestion ==
    (nextCalls >= 1 /\ nextCalls <= Len(question_list)) =>
        /\ current_question = Some(question_list[nextCalls])
        /\ question_number = nextCalls
        /\ lastReturn = Some([index |-> nextCalls,
                              text |-> html_unescape(question_list[nextCalls].text)])

\* C4: third call on a list of three different questions, the second with a character
\* reference in its text, with check_answer and a setter called on the way
NthCallGivesNthQuestionWitness ==
    /\ nextCalls = 3
    /\ Cardinality({ question_list[i] : i \in 1..3 }) = 3
    /\ question_list[2].text = <<"Q", "2", "&amp;", "C">>
    /\ checkCalls >= 1
    /\ setterCalls >= 1

\* C5: after a full run the score is the number of check_answer calls whose argument
\* equalled the then-current answer ignoring case.
ScoreCountsMatches ==
    (nextCalls = Len(question_list) /\ ~still_has_questions) => score = refMatches

\* C5: a full run with two matching calls and one that did not match
ScoreCountsMatchesWitness ==
    /\ Len(question_list) >= 2
    /\ nextCalls = Len(question_list)
    /\ hasNextHist # <<>>
    /\ ~hasNextHist[Len(hasNextHist)]
    /\ refMatches = 2
    /\ checkCalls = 3

\* ------------------------------------------------------- fetch_question_data
IsValid(o) == o.kind = "response" /\ o.status = 200 /\ o.response_code = 0
IsNonzero(o) == o.kind = "response" /\ o.status = 200 /\ o.response_code # 0
IsTransportErrorNot429(o) == o.kind = "no_response" \/ (o.status >= 400 /\ o.status # 429)

\* C7: the call returns the results of the first response with response_code 0 and
\* sends nothing after it; when only nonzero response codes came before it, the
\* j-th request asked for initial count - (j - 1) questions.
FirstValidResponseIsReturned ==
    \A i \in DOMAIN responses :
        IsValid(responses[i]) =>
            /\ i = Len(responses)
            /\ Len(requests) = i
            /\ f_pc = "returned"
            /\ f_result = Some(responses[i].results)
            /\ (\A j \in 1..(i - 1) : IsNonzero(responses[j])) =>
                   \A j \in 1..i : requests[j].amount = initial_count - (j - 1)

\* C7: two nonzero response codes, then a valid response to the third request
FirstValidResponseIsReturnedWitness ==
    /\ Len(responses) = 3
    /\ IsNonzero(responses[1])
    /\ IsNonzero(responses[2])
    /\ IsValid(responses[3])
    /\ f_pc = "returned"

\* C8: an attempt that meets a transport error other than HTTP 429 is the last one
\* and the call returns None.
TransportErrorReturnsNone ==
    \A i \in DOMAIN responses :
        IsTransportErrorNot429(responses[i]) =>
            /\ i = Len(responses)
            /\ Len(requests) = i
            /\ f_pc = "returned"
            /\ f_result = None

\* C9: no exception leaves fetch_question_data: a call that ends, ends by returning.
FetchNeverRaises == f_pc # "raised"

\* C12: the request that follows a rate-limited (HTTP 429) one carries the same
\* amount and category; while none has followed yet the call is still in its loop
\* with that amount and category.
RateLimitedRetriesSame ==
    \A i \in DOMAIN responses :
        responses[i].status = 429 =>
            IF i < Len(requests)
            THEN /\ requests[i + 1].amount = requests[i].amount
                 /\ requests[i + 1].category = requests[i].category
            ELSE /\ f_pc = "loop"
                 /\ number_of_questions = requests[i].amount
                 /\ category_code = requests[i].category

\* C12: two 429 responses in a row, and the request after them
RateLimitedRetriesSameWitness ==
    /\ Len(requests) = 3
    /\ responses[1].status = 429
    /\ responses[2].status = 429

\* C17: with finitely many rate-limited attempts the call ends; a call that met only
\* nonzero response codes from count c >= 1 asked for c, c-1, ... in turn, and when
\* it has ended it made exactly c requests and returned None; a call with count <= 0
\* sends nothing and returns None; a 429 response never ends the call.
FetchTerminates ==
    /\ <>(f_pc \in { "returned", "raised" })
    /\ []((\A i \in DOMAIN responses : IsNonzero(responses[i])) /\ initial_count >= 1 =>
             /\ \A j \in DOMAIN requests : requests[j].amount = initial_count - (j - 1)
             /\ f_pc # "loop" =>
                    /\ f_pc = "returned"
                    /\ Len(requests) = initial_count
                    /\ f_result = None)
    /\ [](initial_count <= 0 =>
             /\ requests = <<>>
             /\ f_pc # "loop" => (f_pc = "returned" /\ f_result = None))
    /\ []((responses # <<>> /\ responses[Len(responses)].status = 429) =>
             (f_pc = "loop" /\ number_of_questions > 0))

\* C17: three nonzero response codes from count 3, then None
FetchTerminatesWitness ==
    /\ initial_count = 3
    /\ Len(requests) = 3
    /\ \A i \in DOMAIN responses : IsNonzero(responses[i])
    /\ f_pc = "returned"
    /\ f_result = None

\* C18: while the quiz screen dispatches events, an enabled answer button means a
\* current question is set, no QuizBrain call has raised (next_question ran only
\* with a question left), and with an empty list both buttons are disabled.
ScreenKeepsPreconditions ==
    ui_pc = "mainloop" =>
        /\ (button_true = "normal" \/ button_false = "normal") => ~IsNone(current_question)
        /\ error = "none"
        /\ question_list = <<>> => (button_true = "disabled" /\ button_false = "disabled")

\* C18: the screen of an empty quiz, in its event loop
ScreenKeepsPreconditionsWitness ==
    /\ ui_pc = "mainloop"
    /\ question_list = <<>>
    /\ finalShown = 1

\* C11: when each of the n questions was answered exactly once, the final screen
\* shows m/n, m the number of answers that matched ignoring case and n the length
\* of the question list, whatever total was requested.
FinalRatioIsMatchesOverLength ==
    (canvas_text.kind = "final"
       /\ answeredInTurn /\ presses = Len(question_list)) =>
        /\ canvas_text.score = refMatches
        /\ canvas_text.of = Len(question_list)

\* C11: answers true, false, true to three questions whose answers are True, False,
\* False, with a larger total requested: 2/3
FinalRatioIsMatchesOverLengthWitness ==
    /\ canvas_text.kind = "final"
    /\ Len(question_list) = 3
    /\ [i \in 1..3 |-> question_list[i].answer] = <<s_True, s_False, s_False>>
    /\ answeredInTurn /\ presses = 3
    /\ refMatches = 2
    /\ total_questions > 3
    /\ canvas_text.score = 2 /\ canvas_text.of = 3

\* C16: a check_answer call with a current question returns True and adds one to
\* score when its argument equals the current answer ignoring case, and otherwise
\* returns False and leaves score alone; it changes nothing else of the QuizBrain.
CheckAnswerFrame ==
    [][(checkCalls' = checkCalls + 1 /\ ~IsNone(current_question)) =>
          /\ Get(lastCheck').returned <=>
                 RefMatch(Get(lastCheck').user_answer, Get(current_question).answer)
          /\ score' = IF Get(lastCheck').returned THEN score + 1 ELSE score
          /\ question_number' = question_number
          /\ current_question' = current_question
          /\ question_list' = question_list
          /\ category' = category
          /\ total_questions' = total_questions]_vars

\* C16: "TRUE" was just accepted for the answer "True", after a call that was not
CheckAnswerFrameWitness ==
    /\ lastCheck = Some([user_answer |-> s_TRUE, returned |-> TRUE])
    /\ Get(current_question).answer = s_True
    /\ checkCalls = 2
    /\ score = 1

\* C20: with the timers firing, the k-th answer press is followed by the k-th run of
\* get_next_question from a timer (which shows a question or the final score); and
\* if the user also presses a button whenever one stays enabled, the final score is
\* shown in the end.
PressesLeadToFinalScore ==
    /\ \A k \in 1..MaxPresses : (presses >= k) ~> (presses - pending >= k)
    /\ [](canvas_text.kind \in { "empty", "question", "final" })
    /\ WF_vars(TruePressed \/ FalsePressed) => <>(canvas_text.kind = "final")

\* C20: three questions answered, all timers fired, the final score on screen
PressesLeadToFinalScoreWitness ==
    /\ Len(question_list) = 3
    /\ presses >= 3
    /\ pending = 0
    /\ canvas_text.kind = "final"

\* C14: a run of get_quiz_settings is the only one, stores the code the menu pairs
\* with the category selected then (one of the eight codes) and the count pressed
\* last (10 when none was), and destroys the window; once the window is destroyed
\* the stored pair does not change.
ProceedStoresSelection ==
    [][/\ proceeds' = proceeds + 1 =>
           /\ proceeds' = 1
           /\ setup_pc' = "destroyed"
           /\ \E i \in DOMAIN options_category :
                  /\ options_category[i].category = value_category
                  /\ options_category[i].code = qs_category_code'
           /\ qs_category_code' \in { 9, 11, 12, 15, 17, 18, 22, 23 }
           /\ qs_number_of_questions' = (IF lastOption = 0 THEN 10 ELSE lastOption)
           /\ qs_number_of_questions' \in { 10, 15, 20, 25, 30 }
       /\ setup_pc = "destroyed" =>
           /\ setup_pc' = "destroyed"
           /\ qs_category_code' = qs_category_code
           /\ qs_number_of_questions' = qs_number_of_questions]_vars

\* C14: PROCEED after choosing History and pressing 25, then 30
ProceedStoresSelectionWitness ==
    /\ setup_pc = "destroyed"
    /\ proceeds = 1
    /\ value_category = "History"
    /\ lastOption = 30
    /\ qs_category_code = 23
    /\ qs_number_of_questions = 30

\* ------------------------------------------------------------ the whole script
\* C19: however the setup window ended, fetch_question_data is entered with a count
\* among 10, 15, 20, 25, 30 and a category code of the menu.
FetchCalledWithMenuValues ==
    f_pc # "off" =>
        /\ initial_count \in { 10, 15, 20, 25, 30 }
        /\ category_code \in CategoryCodes

\* C15: when fetch_question_data has returned None the script does not fail on it.
NoneResultIsNotUsed ==
    (f_pc = "returned" /\ IsNone(f_result)) => main_pc # "crashed"

\* C13: a call that returned a result asked last for an amount a with 1 <= a <= the
\* count it was given and got a records; from then on the question list is no longer
\* than total_questions, and a label "Question k/total" shown has 1 <= k <= total.
CountsBoundLabels ==
    /\ (f_pc = "returned" /\ ~IsNone(f_result)) =>
           /\ 1 <= requests[Len(requests)].amount
           /\ requests[Len(requests)].amount <= initial_count
           /\ Len(Get(f_result)) = requests[Len(requests)].amount
    /\ ui_pc \in { "init", "mainloop" } => Len(question_list) <= total_questions
    /\ question_number_label # [k |-> 0, total |-> 0] =>
           /\ 1 <= question_number_label.k
           /\ question_number_label.k <= question_number_label.total
           /\ question_number_label.total = total_questions

\* C13: the fetch fell back from 10 to 9 questions and the second one is on screen
CountsBoundLabelsWitness ==
    /\ initial_count = 10
    /\ Len(question_list) = 9
    /\ ui_pc = "mainloop"
    /\ question_number_label = [k |-> 2, total |-> 10]

====
